---------------------------- MODULE Spec2Model ----------------------------
(***************************************************************************)
(* State-machine model of the BPMN token execution engine                  *)
(* (src/bpmn_engine): Resource / ProcessContext, Token, Event, Activity,   *)
(* ExclusiveGateway, ParallelGateway and the Process orchestrator.         *)
(*                                                                         *)
(* Pointers to BPMNElement are indices into Process::elements (1-based);   *)
(* 0 is nullptr.  Durations are whole minutes and money is kept in units   *)
(* of 1/60 (totalCost holds 60 * the C++ totalCost), so all arithmetic is  *)
(* over integers.                                                          *)
(*                                                                         *)
(* A client program is a sequence of construction calls (as main.cpp is);  *)
(* the calls are executed one per step, then simulate() may be called.     *)
(* The recursion of execute() is the sequence `stack` of pending calls:    *)
(* every execute() does all of its own work before it calls its            *)
(* successors and nothing after they return, so the call tree is walked    *)
(* in pre-order and the pending calls form a stack.                        *)
(***************************************************************************)
EXTENDS Integers, Sequences, FiniteSets, TLC

VARIABLES
    script,          \* construction calls the client program has still to make
    done,            \* construction calls already made, in order
    elements,        \* Process::elements
    startElement,    \* Process::startElement (0 = nullptr)
    resources,       \* ProcessContext::resources (name -> Resource)
    tokensStarted,   \* ProcessContext::tokensStarted
    tokensCompleted, \* ProcessContext::tokensCompleted
    endReasons,      \* ProcessContext::endReasons (reason -> count)
    tokens,          \* Process::tokens
    pc,              \* "idle" or "simulate" (inside Process::simulate)
    cur,             \* index in tokens of the token being executed
    stack,           \* pending execute() calls on tokens[cur], innermost first
    runs,            \* number of simulate() calls made
    stderr,          \* lines written to std::cerr
    escaped,         \* errors that left executeToken/simulate towards the caller
    visit,           \* the last node visit: what it evaluated and whom it called
    occupancy,       \* simulated intervals during which an activity used a resource
    simArgs,         \* the arguments of the last simulate() call
    atCall,          \* the resources as the last simulate() call found them
    trace            \* the execute() calls of this simulate(), in order: token,
                     \* element and the token's clock on entry

vars == <<script, done, elements, startElement, resources, tokensStarted,
          tokensCompleted, endReasons, tokens, pc, cur, stack, runs, stderr,
          escaped, visit, occupancy, simArgs, atCall, trace>>

build == <<script, done, elements, startElement>>
metrics == <<tokensStarted, tokensCompleted, endReasons>>

(***************************************************************************)
(* Bounds of the model.                                                    *)
(***************************************************************************)
MaxCap == 2
MaxCases == 2
MaxRules == 3
MaxRuns == 2

Caps == 1..MaxCap
Durations == {-5, 10}
Intervals == {0, 1}
Conds == {"never", "always", "oddId"}
NoData == <<>>

(***************************************************************************)
(* Resource (ProcessContext.h)                                             *)
(***************************************************************************)
Resource(n, available, cost) ==
    [name |-> n, totalAvailable |-> available, currentlyUsed |-> 0,
     costPerHour |-> cost, totalCost |-> 0, totalTimeUsed |-> 0]

isAvailable(r) == r.currentlyUsed < r.totalAvailable

\* acquire without the availability test
acquireUnchecked(r) == [r EXCEPT !.currentlyUsed = @ + 1]

acquire(r) ==
    IF isAvailable(r) THEN [r EXCEPT !.currentlyUsed = @ + 1] ELSE r

\* release that gives nothing back
releaseNothing(r) == r

release(r) ==
    IF r.currentlyUsed > 0 THEN [r EXCEPT !.currentlyUsed = @ - 1] ELSE r

\* addUsage that leaves the hourly rate out of the cost
addUsageFlatCost(r, minutes) ==
    [r EXCEPT !.totalTimeUsed = @ + minutes, !.totalCost = @ + minutes]

addUsage(r, minutes) ==
    [r EXCEPT !.totalTimeUsed = @ + minutes,
              !.totalCost = @ + minutes * r.costPerHour]

\* std::map::emplace keeps the element already stored under the key
addResource(rs, n, quantity, cost) ==
    IF n \in DOMAIN rs THEN rs ELSE rs @@ (n :> Resource(n, quantity, cost))

\* the Resource* returned, as a name; "" is nullptr
getResource(rs, n) == IF n \in DOMAIN rs THEN n ELSE ""

\* tokenCompleted that stores 1 instead of incrementing
tokenCompletedStoringOne(er, reason) ==
    IF reason \in DOMAIN er THEN [er EXCEPT ![reason] = 1]
    ELSE er @@ (reason :> 1)

\* endReasons[reason]++ creates the entry at 0 first
tokenCompleted(er, reason) ==
    IF reason \in DOMAIN er THEN [er EXCEPT ![reason] = @ + 1]
    ELSE er @@ (reason :> 1)

(***************************************************************************)
(* Token (Token.h)                                                         *)
(***************************************************************************)
Token(id, start) ==
    [candidateId |-> id, data |-> NoData, startTime |-> start,
     currentTime |-> start, completed |-> FALSE, endReason |-> ""]

\* advanceTime that ignores its argument
advanceTimeByOne(t, minutes) == [t EXCEPT !.currentTime = @ + 1]

advanceTime(t, minutes) == [t EXCEPT !.currentTime = @ + minutes]

\* complete that also notes the reason in the data bag
completeWritingData(t, reason) ==
    [t EXCEPT !.completed = TRUE, !.endReason = reason,
              !.data = <<reason>>]

complete(t, reason) == [t EXCEPT !.completed = TRUE, !.endReason = reason]

getCycleTime(t) == t.currentTime - t.startTime

(***************************************************************************)
(* BPMNElement and its subclasses (BPMNElement.h, Activity.h, Gateway.h)   *)
(***************************************************************************)
Element(type, n) ==
    [type |-> type, name |-> n, outgoing |-> <<>>, isDivergence |-> FALSE,
     processingTime |-> 0, resourceName |-> "", rules |-> <<>>,
     defaultFlow |-> 0]

connectTo(e, next) == [e EXCEPT !.outgoing = Append(@, next)]

\* the rule predicates a client registers; "null" is an empty std::function
Eval(condition, t) ==
    CASE condition = "always" -> TRUE
      [] condition = "never" -> FALSE
      [] condition = "oddId" -> t.candidateId % 2 = 1
      [] OTHER -> FALSE

\* addPath that also forgets the default path set so far
addPathDroppingDefault(g, ruleName, target, condition) ==
    IF condition = "null" THEN g
    ELSE IF target = 0 THEN g
    ELSE connectTo(
           [g EXCEPT !.rules = Append(@, [name |-> ruleName,
                                          condition |-> condition,
                                          nextNode |-> target]),
                     !.defaultFlow = 0],
           target)

addPath(g, ruleName, target, condition) ==
    IF condition = "null" THEN g
    ELSE IF target = 0 THEN g
    ELSE connectTo(
           [g EXCEPT !.rules = Append(@, [name |-> ruleName,
                                          condition |-> condition,
                                          nextNode |-> target])],
           target)

\* setDefaultPath without the test of its target
setDefaultPathUnchecked(g, target) ==
    connectTo([g EXCEPT !.defaultFlow = target], target)

setDefaultPath(g, target) ==
    IF target = 0 THEN g
    ELSE connectTo([g EXCEPT !.defaultFlow = target], target)


\* the loop without its early exit: every rule is evaluated and the last
\* one that holds is taken
RECURSIVE EvaluateAllRules(_, _, _, _)
EvaluateAllRules(rules, t, i, seen) ==
    IF i > Len(rules) THEN [evaluated |-> seen, hit |-> 0]
    ELSE LET rest == EvaluateAllRules(rules, t, i + 1, Append(seen, i)) IN
         IF rest.hit = 0 /\ Eval(rules[i].condition, t)
         THEN [evaluated |-> rest.evaluated, hit |-> i]
         ELSE rest

\* the loop of ExclusiveGateway::execute over rules, from rule i on: the
\* rules whose condition it calls, and the rule it stops at (0 = none)
RECURSIVE EvaluateRules(_, _, _, _)
EvaluateRules(rules, t, i, seen) ==
    IF i > Len(rules) THEN [evaluated |-> seen, hit |-> 0]
    ELSE IF Eval(rules[i].condition, t)
         THEN [evaluated |-> Append(seen, i), hit |-> i]
         ELSE EvaluateRules(rules, t, i + 1, Append(seen, i))

\* a line on std::cerr: what it reports, the name it prints and the token
\* id it prints (0 when the line prints none)
Line(kind, n, id) == [kind |-> kind, name |-> n, token |-> id]

\* execute without the return after the matching rule's call: the default
\* path is taken as well
RouteWithoutReturn(g, t) ==
    LET r == EvaluateRules(g.rules, t, 1, <<>>)
        viaRule == IF r.hit > 0 THEN <<g.rules[r.hit].nextNode>> ELSE <<>>
        viaDefault == IF g.defaultFlow # 0 THEN <<g.defaultFlow>> ELSE <<>>
    IN  [evaluated |-> r.evaluated,
         via |-> IF r.hit > 0 THEN "rule"
                 ELSE IF g.defaultFlow # 0 THEN "default" ELSE "none",
         rule |-> r.hit,
         targets |-> viaRule \o viaDefault,
         log |-> IF viaRule \o viaDefault = <<>>
                 THEN <<Line("RoutingError", g.name, t.candidateId)>>
                 ELSE <<>>]

\* execute that, with no rule holding and no default, follows the first
\* outgoing edge
RouteFallingBackToOutgoing(g, t) ==
    LET r == EvaluateRules(g.rules, t, 1, <<>>) IN
    IF r.hit > 0
    THEN [evaluated |-> r.evaluated, via |-> "rule", rule |-> r.hit,
          targets |-> <<g.rules[r.hit].nextNode>>, log |-> <<>>]
    ELSE IF g.defaultFlow # 0
    THEN [evaluated |-> r.evaluated, via |-> "default", rule |-> 0,
          targets |-> <<g.defaultFlow>>, log |-> <<>>]
    ELSE IF g.outgoing # <<>>
    THEN [evaluated |-> r.evaluated, via |-> "none", rule |-> 0,
          targets |-> <<g.outgoing[1]>>, log |-> <<>>]
    ELSE [evaluated |-> r.evaluated, via |-> "none", rule |-> 0,
          targets |-> <<>>,
          log |-> <<Line("RoutingError", g.name, t.candidateId)>>]

\* ExclusiveGateway::execute: the rules it evaluates, which way it leaves,
\* the execute() calls it makes and what it writes to std::cerr
\* ("[ERROR] Token #<id> sin salida valida en Gateway '<name>'")
Route(g, t) ==
    LET r == EvaluateRules(g.rules, t, 1, <<>>) IN
    IF r.hit > 0
    THEN [evaluated |-> r.evaluated, via |-> "rule", rule |-> r.hit,
          targets |-> <<g.rules[r.hit].nextNode>>, log |-> <<>>]
    ELSE IF g.defaultFlow # 0
    THEN [evaluated |-> r.evaluated, via |-> "default", rule |-> 0,
          targets |-> <<g.defaultFlow>>, log |-> <<>>]
    ELSE [evaluated |-> r.evaluated, via |-> "none", rule |-> 0,
          targets |-> <<>>,
          log |-> <<Line("RoutingError", g.name, t.candidateId)>>]

\* an element that never calls its successor
FirstOutgoingNone(e) == <<>>

\* "if (!outgoing.empty()) outgoing[0]->execute(token, context)"
FirstOutgoing(e) == IF e.outgoing # <<>> THEN <<e.outgoing[1]>> ELSE <<>>

\* ParallelGateway::execute: every outgoing edge in turn when diverging,
\* the first one when converging
Branches(e) == IF e.isDivergence THEN e.outgoing ELSE FirstOutgoing(e)

(***************************************************************************)
(* Client programs: the construction calls of a main(), as data.           *)
(***************************************************************************)
Call(op, n, res, a, b, cond) ==
    [op |-> op, name |-> n, res |-> res, a |-> a, b |-> b, cond |-> cond]

InsertAt(s, k, x) == SubSeq(s, 1, k - 1) \o <<x>> \o SubSeq(s, k, Len(s))

\* start -> activity -> end, one registered resource "A"
ChainProgram(cap, time, res) ==
    << Call("addResource", "A", "", cap, 60, ""),
       Call("addStartEvent", "Start", "", 0, 0, ""),
       Call("addActivity", "Task", res, time, 0, ""),
       Call("addEndEvent", "Done", "", 0, 0, ""),
       Call("connectTo", "", "", 1, 2, ""),
       Call("connectTo", "", "", 2, 3, "") >>

\* start -> exclusive gateway with Len(conds) rules, rule i leading to its
\* own end event, and (defPos > 0) a default path to a further end event,
\* set before the defPos-th addPath (after all of them when defPos is
\* Len(conds) + 1)
RuleName(i) == <<"r1", "r2", "r3", "r4", "r5">>[i]
EndName(i) == <<"E1", "E2", "E3", "E4", "E5">>[i]
XorProgram(conds, defPos) ==
    LET n == Len(conds)
        ends == [i \in 1..n |-> Call("addEndEvent", EndName(i), "", 0, 0, "")]
        paths == [i \in 1..n |->
                    Call("addPath", RuleName(i), "", 2, 2 + i, conds[i])]
        deflt == Call("setDefaultPath", "", "", 2, 3 + n, "")
    IN  << Call("addStartEvent", "Start", "", 0, 0, ""),
           Call("addExclusiveGateway", "GW", "", 0, 0, "") >>
        \o ends
        \o << Call("addEndEvent", "Else", "", 0, 0, ""),
              Call("connectTo", "", "", 1, 2, "") >>
        \o (IF defPos = 0 THEN paths ELSE InsertAt(paths, defPos, deflt))

\* start -> diverging gateway -> two activities on "A"; with a join the
\* activities meet in a converging gateway before the end event, without
\* one each branch has its own end event
ParallelProgram(cap, time, join) ==
    << Call("addResource", "A", "", cap, 60, ""),
       Call("addStartEvent", "Start", "", 0, 0, ""),
       Call("addParallelGateway", "Fork", "", 1, 0, ""),
       Call("addActivity", "Left", "A", time, 0, ""),
       Call("addActivity", "Right", "A", time, 0, ""),
       Call("addParallelGateway", "Join", "", 0, 0, ""),
       Call("addEndEvent", "Done", "", 0, 0, ""),
       Call("addEndEvent", "Other", "", 0, 0, ""),
       Call("connectTo", "", "", 1, 2, ""),
       Call("connectTo", "", "", 2, 3, ""),
       Call("connectTo", "", "", 2, 4, "") >>
    \o (IF join
        THEN << Call("connectTo", "", "", 3, 5, ""),
                Call("connectTo", "", "", 4, 5, ""),
                Call("connectTo", "", "", 5, 6, "") >>
        ELSE << Call("connectTo", "", "", 3, 6, ""),
                Call("connectTo", "", "", 4, 7, "") >>)

\* the chain with a second end event "Other", wired by the given edges
WiringProgram(edges) ==
    << Call("addResource", "A", "", 1, 60, ""),
       Call("addStartEvent", "Start", "", 0, 0, ""),
       Call("addActivity", "Task", "A", 10, 0, ""),
       Call("addEndEvent", "Done", "", 0, 0, ""),
       Call("addEndEvent", "Other", "", 0, 0, "") >>
    \o [i \in 1..Len(edges) |->
          Call("connectTo", "", "", edges[i][1], edges[i][2], "")]

\* a start event without an edge, a start event with two, an activity with
\* two, and an end event with one
Wirings ==
    { << <<2, 3>> >>,
      << <<1, 2>>, <<1, 4>>, <<2, 3>> >>,
      << <<1, 2>>, <<2, 3>>, <<2, 4>> >>,
      << <<1, 2>>, <<2, 3>>, <<3, 4>> >> }

\* the chain with "A" registered a second time, before or after the graph
\* is built
DuplicateProgram(cap, again, late) ==
    LET second == Call("addResource", "A", "", again, 120, "") IN
    IF late THEN Append(ChainProgram(cap, 10, "A"), second)
    ELSE InsertAt(ChainProgram(cap, 10, "A"), 2, second)

\* start -> exclusive gateway with one registration that is refused (a
\* null condition, a null target or a null default target), made before a
\* rule "always" to the end event "E1"
NullProgram(kind) ==
    << Call("addStartEvent", "Start", "", 0, 0, ""),
       Call("addExclusiveGateway", "GW", "", 0, 0, ""),
       Call("addEndEvent", "E1", "", 0, 0, ""),
       Call("connectTo", "", "", 1, 2, ""),
       (CASE kind = "condition" -> Call("addPath", "r1", "", 2, 3, "null")
          [] kind = "target" -> Call("addPath", "r1", "", 2, 0, "always")
          [] OTHER -> Call("setDefaultPath", "", "", 2, 0, "")),
       Call("addPath", "r2", "", 2, 3, "always") >>

\* the chain without a start event (addStartEvent is never called)
NoStartProgram ==
    << Call("addResource", "A", "", 1, 60, ""),
       Call("addActivity", "Task", "A", 10, 0, ""),
       Call("addEndEvent", "Done", "", 0, 0, ""),
       Call("connectTo", "", "", 1, 2, "") >>

\* two start events, each with its own end event; the second is added
\* after the first one is wired
TwoStartProgram ==
    << Call("addStartEvent", "Start", "", 0, 0, ""),
       Call("addEndEvent", "Done", "", 0, 0, ""),
       Call("connectTo", "", "", 1, 2, ""),
       Call("addStartEvent", "Second", "", 0, 0, ""),
       Call("addEndEvent", "Other", "", 0, 0, ""),
       Call("connectTo", "", "", 3, 4, "") >>

\* start -> activity -> exclusive gateway whose two exits are wired with
\* connectTo alone, as main.cpp wires gw1
ConnectOnlyProgram ==
    << Call("addResource", "A", "", 1, 60, ""),
       Call("addStartEvent", "Start", "", 0, 0, ""),
       Call("addActivity", "Task", "A", 10, 0, ""),
       Call("addExclusiveGateway", "GW", "", 0, 0, ""),
       Call("addEndEvent", "E1", "", 0, 0, ""),
       Call("addEndEvent", "E2", "", 0, 0, ""),
       Call("connectTo", "", "", 1, 2, ""),
       Call("connectTo", "", "", 2, 3, ""),
       Call("connectTo", "", "", 3, 4, ""),
       Call("connectTo", "", "", 3, 5, "") >>

CondLists == UNION {[1..n -> Conds] : n \in 0..MaxRules}

Programs ==
    {ChainProgram(cap, time, res) :
        cap \in Caps, time \in Durations, res \in {"A", "B"}}
    \cup UNION {{XorProgram(conds, defPos) : defPos \in 0..(Len(conds) + 1)} :
                  conds \in CondLists}
    \cup {ParallelProgram(cap, time, join) :
            cap \in Caps, time \in Durations, join \in BOOLEAN}
    \cup {WiringProgram(edges) : edges \in Wirings}
    \cup {DuplicateProgram(cap, again, late) :
            cap \in Caps, again \in Caps, late \in BOOLEAN}
    \cup {NullProgram(kind) : kind \in {"condition", "target", "default"}}
    \cup {NoStartProgram, TwoStartProgram, ConnectOnlyProgram}


(***************************************************************************)
(* State after "Process p(name);" in a client program still to run.        *)
(***************************************************************************)
Frame(n) == [node |-> n, pc |-> "enter", acquired |-> FALSE]

NoVisit ==
    [node |-> 0, token |-> 0, type |-> "", evaluated |-> <<>>, via |-> "",
     rule |-> 0, targets |-> <<>>]

Visit(n, type, t, evaluated, via, rule, targets) ==
    [node |-> n, token |-> t, type |-> type, evaluated |-> evaluated,
     via |-> via, rule |-> rule, targets |-> targets]

Init ==
    /\ script \in Programs
    /\ done = <<>>
    /\ elements = <<>>
    /\ startElement = 0
    /\ resources = <<>>
    /\ tokensStarted = 0
    /\ tokensCompleted = 0
    /\ endReasons = <<>>
    /\ tokens = <<>>
    /\ pc = "idle"
    /\ cur = 0
    /\ stack = <<>>
    /\ runs = 0
    /\ stderr = <<>>
    /\ escaped = {}
    /\ visit = NoVisit
    /\ occupancy = {}
    /\ simArgs = [numCandidates |-> 0, arrivalInterval |-> 0]
    /\ atCall = <<>>
    /\ trace = <<>>

(***************************************************************************)
(* Construction calls (Process.h, BPMNElement.h, Gateway.h)                *)
(***************************************************************************)
Calling(op) == pc = "idle" /\ script # <<>> /\ Head(script).op = op

Called ==
    /\ script' = Tail(script)
    /\ done' = Append(done, Head(script))

AddResource ==
    /\ Calling("addResource")
    /\ LET c == Head(script) IN
       resources' = addResource(resources, c.name, c.a, c.b)
    /\ Called
    /\ UNCHANGED <<elements, startElement, metrics, tokens, pc, cur, stack,
                   runs, stderr, escaped, visit, occupancy, simArgs, atCall, trace>>

\* addStartEvent that makes every start event added the entry node
AddStartEventTakingLast ==
    /\ Calling("addStartEvent")
    /\ elements' = Append(elements, Element("StartEvent", Head(script).name))
    /\ startElement' = Len(elements) + 1
    /\ Called
    /\ UNCHANGED <<resources, metrics, tokens, pc, cur, stack, runs, stderr,
                   escaped, visit, occupancy, simArgs, atCall, trace>>

AddStartEvent ==
    /\ Calling("addStartEvent")
    /\ elements' = Append(elements, Element("StartEvent", Head(script).name))
    /\ startElement' = IF startElement = 0 THEN Len(elements) + 1
                       ELSE startElement
    /\ Called
    /\ UNCHANGED <<resources, metrics, tokens, pc, cur, stack, runs, stderr,
                   escaped, visit, occupancy, simArgs, atCall, trace>>

AddEndEvent ==
    /\ Calling("addEndEvent")
    /\ elements' = Append(elements, Element("EndEvent", Head(script).name))
    /\ Called
    /\ UNCHANGED <<startElement, resources, metrics, tokens, pc, cur, stack,
                   runs, stderr, escaped, visit, occupancy, simArgs, atCall, trace>>

AddActivity ==
    /\ Calling("addActivity")
    /\ LET c == Head(script) IN
       elements' = Append(elements,
                          [Element("Activity", c.name) EXCEPT
                             !.processingTime = c.a, !.resourceName = c.res])
    /\ Called
    /\ UNCHANGED <<startElement, resources, metrics, tokens, pc, cur, stack,
                   runs, stderr, escaped, visit, occupancy, simArgs, atCall, trace>>

AddExclusiveGateway ==
    /\ Calling("addExclusiveGateway")
    /\ elements' = Append(elements,
                          Element("ExclusiveGateway", Head(script).name))
    /\ Called
    /\ UNCHANGED <<startElement, resources, metrics, tokens, pc, cur, stack,
                   runs, stderr, escaped, visit, occupancy, simArgs, atCall, trace>>

AddParallelGateway ==
    /\ Calling("addParallelGateway")
    /\ LET c == Head(script) IN
       elements' = Append(elements,
                          [Element("ParallelGateway", c.name) EXCEPT
                             !.isDivergence = (c.a = 1)])
    /\ Called
    /\ UNCHANGED <<startElement, resources, metrics, tokens, pc, cur, stack,
                   runs, stderr, escaped, visit, occupancy, simArgs, atCall, trace>>

ConnectTo ==
    /\ Calling("connectTo")
    /\ LET c == Head(script) IN
       elements' = [elements EXCEPT ![c.a] = connectTo(@, c.b)]
    /\ Called
    /\ UNCHANGED <<startElement, resources, metrics, tokens, pc, cur, stack,
                   runs, stderr, escaped, visit, occupancy, simArgs, atCall, trace>>

AddPath ==
    /\ Calling("addPath")
    /\ LET c == Head(script) IN
       /\ elements' = [elements EXCEPT ![c.a] = addPath(@, c.name, c.b, c.cond)]
       /\ stderr' = IF c.cond = "null"
                    THEN Append(stderr, Line("NullCondition", elements[c.a].name, 0))
                    ELSE IF c.b = 0
                    THEN Append(stderr, Line("NullTarget", elements[c.a].name, 0))
                    ELSE stderr
    /\ Called
    /\ UNCHANGED <<startElement, resources, metrics, tokens, pc, cur, stack,
                   runs, escaped, visit, occupancy, simArgs, atCall, trace>>

SetDefaultPath ==
    /\ Calling("setDefaultPath")
    /\ LET c == Head(script) IN
       /\ elements' = [elements EXCEPT ![c.a] = setDefaultPath(@, c.b)]
       /\ stderr' = IF c.b = 0
                    THEN Append(stderr, Line("NullDefault", elements[c.a].name, 0))
                    ELSE stderr
    /\ Called
    /\ UNCHANGED <<startElement, resources, metrics, tokens, pc, cur, stack,
                   runs, escaped, visit, occupancy, simArgs, atCall, trace>>


(***************************************************************************)
(* Direct use of a Resource by the client, through                         *)
(* getContext().getResource(name)                                          *)
(***************************************************************************)
Acquire(r) ==
    /\ pc = "idle"
    /\ r \in DOMAIN resources
    /\ resources' = [resources EXCEPT ![r] = acquire(@)]
    /\ UNCHANGED <<build, metrics, tokens, pc, cur, stack, runs, stderr,
                   escaped, visit, occupancy, simArgs, atCall, trace>>

Release(r) ==
    /\ pc = "idle"
    /\ r \in DOMAIN resources
    /\ resources' = [resources EXCEPT ![r] = release(@)]
    /\ UNCHANGED <<build, metrics, tokens, pc, cur, stack, runs, stderr,
                   escaped, visit, occupancy, simArgs, atCall, trace>>

(***************************************************************************)
(* Process::simulate and Process::executeToken (Process.h)                 *)
(***************************************************************************)
\* the loop with the clock advanced before the token is made
RECURSIVE CreateTokensLate(_, _, _, _, _)
CreateTokensLate(numCandidates, arrivalInterval, i, currentTime, made) ==
    IF i < numCandidates
    THEN CreateTokensLate(numCandidates, arrivalInterval, i + 1,
                          currentTime + arrivalInterval,
                          Append(made,
                                 Token(i + 1, currentTime + arrivalInterval)))
    ELSE made

\* the token-creating loop of simulate, from i on
RECURSIVE CreateTokens(_, _, _, _, _)
CreateTokens(numCandidates, arrivalInterval, i, currentTime, made) ==
    IF i < numCandidates
    THEN CreateTokens(numCandidates, arrivalInterval, i + 1,
                      currentTime + arrivalInterval,
                      Append(made, Token(i + 1, currentTime)))
    ELSE made

Simulate(numCandidates, arrivalInterval) ==
    /\ pc = "idle"
    /\ script = <<>>
    /\ runs < MaxRuns
    /\ tokens' = CreateTokens(numCandidates, arrivalInterval, 0, 0, <<>>)
    /\ pc' = "simulate"
    /\ cur' = 0
    /\ stack' = <<>>
    /\ runs' = runs + 1
    /\ visit' = NoVisit
    /\ occupancy' = {}
    /\ simArgs' = [numCandidates |-> numCandidates,
                   arrivalInterval |-> arrivalInterval]
    /\ atCall' = resources
    /\ trace' = <<>>
    /\ UNCHANGED <<build, resources, metrics, stderr, escaped>>

\* the next round of "for (auto& token : tokens) executeToken(token)"
ExecuteToken ==
    /\ pc = "simulate"
    /\ stack = <<>>
    /\ cur < Len(tokens)
    /\ cur' = cur + 1
    /\ stack' = IF startElement # 0 THEN <<Frame(startElement)>> ELSE <<>>
    /\ UNCHANGED <<build, resources, metrics, tokens, pc, runs, stderr,
                   escaped, visit, occupancy, simArgs, atCall, trace>>

\* the reports after the loop, which change nothing, and the return
SimulateReturn ==
    /\ pc = "simulate"
    /\ stack = <<>>
    /\ cur = Len(tokens)
    /\ pc' = "idle"
    /\ cur' = 0
    /\ UNCHANGED <<build, resources, metrics, tokens, stack, runs, stderr,
                   escaped, visit, occupancy, simArgs, atCall, trace>>

(***************************************************************************)
(* execute() of the element on top of the stack, on tokens[cur]            *)
(***************************************************************************)
Top == stack[1]
TopElement == elements[Top.node]
Executing(type) ==
    /\ pc = "simulate"
    /\ stack # <<>>
    /\ TopElement.type = type

\* the call being executed, as recorded on its entry
Entered ==
    [token |-> cur, node |-> Top.node, time |-> tokens[cur].currentTime,
     completed |-> tokens[cur].completed]

Frames(targets) == [i \in 1..Len(targets) |-> Frame(targets[i])]

\* the execute() calls made replace the call that makes them
CallNext(targets) == Frames(targets) \o Tail(stack)

ExecuteStartEvent ==
    /\ Executing("StartEvent")
    /\ trace' = Append(trace, Entered)
    /\ tokensStarted' = tokensStarted + 1
    /\ stack' = CallNext(FirstOutgoing(TopElement))
    /\ visit' = Visit(Top.node, "StartEvent", cur, <<>>, "next", 0,
                      FirstOutgoing(TopElement))
    /\ UNCHANGED <<build, resources, tokensCompleted, endReasons, tokens, pc,
                   cur, runs, stderr, escaped, occupancy, simArgs, atCall>>

\* an end event that goes on to its first outgoing element
ExecuteEndEventForwarding ==
    /\ Executing("EndEvent")
    /\ trace' = Append(trace, Entered)
    /\ tokensCompleted' = tokensCompleted + 1
    /\ endReasons' = tokenCompleted(endReasons, TopElement.name)
    /\ tokens' = [tokens EXCEPT ![cur] = complete(@, TopElement.name)]
    /\ stack' = CallNext(FirstOutgoing(TopElement))
    /\ visit' = Visit(Top.node, "EndEvent", cur, <<>>, "end", 0,
                      FirstOutgoing(TopElement))
    /\ UNCHANGED <<build, resources, tokensStarted, pc, cur, runs, stderr,
                   escaped, occupancy, simArgs, atCall>>

ExecuteEndEvent ==
    /\ Executing("EndEvent")
    /\ trace' = Append(trace, Entered)
    /\ tokensCompleted' = tokensCompleted + 1
    /\ endReasons' = tokenCompleted(endReasons, TopElement.name)
    /\ tokens' = [tokens EXCEPT ![cur] = complete(@, TopElement.name)]
    /\ stack' = CallNext(<<>>)
    /\ visit' = Visit(Top.node, "EndEvent", cur, <<>>, "end", 0, <<>>)
    /\ UNCHANGED <<build, resources, tokensStarted, pc, cur, runs, stderr,
                   escaped, occupancy, simArgs, atCall>>

\* getResource and the waiting loop, which leaves at once
ActivityEnter ==
    /\ Executing("Activity")
    /\ Top.pc = "enter"
    /\ trace' = Append(trace, Entered)
    /\ IF getResource(resources, TopElement.resourceName) = ""
       THEN /\ stderr' = Append(stderr, Line("ResourceNotFound",
                                             TopElement.resourceName, 0))
            /\ stack' = CallNext(<<>>)
            /\ visit' = Visit(Top.node, "Activity", cur, <<>>, "error", 0, <<>>)
       ELSE /\ stack' = [stack EXCEPT ![1].pc = "acquire"]
            /\ UNCHANGED <<stderr, visit>>
    /\ UNCHANGED <<build, resources, metrics, tokens, pc, cur, runs, escaped,
                   occupancy, simArgs, atCall>>

ActivityAcquire ==
    /\ Executing("Activity")
    /\ Top.pc = "acquire"
    /\ LET r == TopElement.resourceName IN
       /\ resources' = [resources EXCEPT ![r] = acquire(@)]
       /\ stack' = [stack EXCEPT
                      ![1].pc = "work",
                      ![1].acquired = (resources'[r].currentlyUsed
                                         > resources[r].currentlyUsed)]
    /\ UNCHANGED <<build, metrics, tokens, pc, cur, runs, stderr, escaped,
                   visit, occupancy, simArgs, atCall, trace>>

\* an activity that advances one clock shared by all tokens
ActivityWorkOnSharedClock ==
    /\ Executing("Activity")
    /\ Top.pc = "work"
    /\ LET r == TopElement.resourceName
           d == TopElement.processingTime
       IN /\ tokens' = [i \in 1..Len(tokens) |-> advanceTime(tokens[i], d)]
          /\ resources' = [resources EXCEPT ![r] = addUsage(@, d)]
          /\ occupancy' = occupancy \cup
                {[res |-> r, token |-> cur,
                  from |-> tokens[cur].currentTime,
                  to |-> tokens'[cur].currentTime]}
    /\ stack' = [stack EXCEPT ![1].pc = "release"]
    /\ UNCHANGED <<build, metrics, pc, cur, runs, stderr, escaped, visit,
                   simArgs, atCall, trace>>

\* token.advanceTime(processingTime); resource->addUsage(processingTime)
ActivityWork ==
    /\ Executing("Activity")
    /\ Top.pc = "work"
    /\ LET r == TopElement.resourceName
           d == TopElement.processingTime
       IN /\ tokens' = [tokens EXCEPT ![cur] = advanceTime(@, d)]
          /\ resources' = [resources EXCEPT ![r] = addUsage(@, d)]
          /\ occupancy' = occupancy \cup
                {[res |-> r, token |-> cur,
                  from |-> tokens[cur].currentTime,
                  to |-> tokens'[cur].currentTime]}
    /\ stack' = [stack EXCEPT ![1].pc = "release"]
    /\ UNCHANGED <<build, metrics, pc, cur, runs, stderr, escaped, visit,
                   simArgs, atCall, trace>>

\* resource->release() and the call of the first outgoing element
ActivityRelease ==
    /\ Executing("Activity")
    /\ Top.pc = "release"
    /\ resources' = [resources EXCEPT ![TopElement.resourceName] = release(@)]
    /\ stack' = CallNext(FirstOutgoing(TopElement))
    /\ visit' = Visit(Top.node, "Activity", cur, <<>>, "next", 0,
                      FirstOutgoing(TopElement))
    /\ UNCHANGED <<build, metrics, tokens, pc, cur, runs, stderr, escaped,
                   occupancy, simArgs, atCall, trace>>

\* a gateway that forgets its rules once it has routed a token
ExecuteExclusiveGatewayOnce ==
    /\ Executing("ExclusiveGateway")
    /\ trace' = Append(trace, Entered)
    /\ LET r == Route(TopElement, tokens[cur]) IN
       /\ stack' = CallNext(r.targets)
       /\ stderr' = stderr \o r.log
       /\ visit' = Visit(Top.node, "ExclusiveGateway", cur, r.evaluated,
                         r.via, r.rule, r.targets)
    /\ elements' = [elements EXCEPT ![Top.node].rules = <<>>]
    /\ UNCHANGED <<script, done, startElement, resources, metrics, tokens, pc,
                   cur, runs, escaped, occupancy, simArgs, atCall>>

ExecuteExclusiveGateway ==
    /\ Executing("ExclusiveGateway")
    /\ trace' = Append(trace, Entered)
    /\ LET r == Route(TopElement, tokens[cur]) IN
       /\ stack' = CallNext(r.targets)
       /\ stderr' = stderr \o r.log
       /\ visit' = Visit(Top.node, "ExclusiveGateway", cur, r.evaluated,
                         r.via, r.rule, r.targets)
    /\ UNCHANGED <<build, resources, metrics, tokens, pc, cur, runs, escaped,
                   occupancy, simArgs, atCall>>

ExecuteParallelGateway ==
    /\ Executing("ParallelGateway")
    /\ trace' = Append(trace, Entered)
    /\ stack' = CallNext(Branches(TopElement))
    /\ visit' = Visit(Top.node, "ParallelGateway", cur, <<>>, "next", 0,
                      Branches(TopElement))
    /\ UNCHANGED <<build, resources, metrics, tokens, pc, cur, runs, stderr,
                   escaped, occupancy, simArgs, atCall>>

Build ==
    \/ AddResource
    \/ AddStartEvent
    \/ AddEndEvent
    \/ AddActivity
    \/ AddExclusiveGateway
    \/ AddParallelGateway
    \/ ConnectTo
    \/ AddPath
    \/ SetDefaultPath

Step ==
    \/ ExecuteToken
    \/ SimulateReturn
    \/ ExecuteStartEvent
    \/ ExecuteEndEvent
    \/ ActivityEnter
    \/ ActivityAcquire
    \/ ActivityWork
    \/ ActivityRelease
    \/ ExecuteExclusiveGateway
    \/ ExecuteParallelGateway

Next ==
    \/ Build
    \/ \E r \in DOMAIN resources : Acquire(r) \/ Release(r)
    \/ \E n \in 0..MaxCases, i \in Intervals : Simulate(n, i)
    \/ Step

Spec == Init /\ [][Next]_vars


\* the code's scheduling: simulate runs to its end once called, and a client
\* that holds a unit gives it back
FairSpec ==
    /\ Spec
    /\ WF_vars(Step)
    /\ WF_vars(\E r \in DOMAIN resources : Release(r))

(***************************************************************************)
(* Properties                                                              *)
(***************************************************************************)
InActivity == pc = "simulate" /\ stack # <<>> /\ TopElement.type = "Activity"

\* C1: in every reachable state every resource has
\* 0 <= currentlyUsed <= totalAvailable (its capacity).
C1_UsedWithinCapacity ==
    \A r \in DOMAIN resources :
        /\ 0 <= resources[r].currentlyUsed
        /\ resources[r].currentlyUsed <= resources[r].totalAvailable

\* an activity holds the last unit of its resource, taken by its own acquire
C1_Witness ==
    /\ InActivity
    /\ Top.pc = "work"
    /\ Top.acquired
    /\ resources[TopElement.resourceName].currentlyUsed
         = resources[TopElement.resourceName].totalAvailable

\* C2: an activity that is past its acquire (about to advance the clock and
\* record usage, or having done so) holds a unit that its own acquire took:
\* with the resource exhausted it waits instead of going on without one.
C2_ProceedsOnlyWithUnit ==
    (InActivity /\ Top.pc \in {"work", "release"}) => Top.acquired

\* C3: at no simulated instant is a resource occupied by more activities than
\* it has units (capacity 1: the occupancy intervals of two cases do not
\* overlap).
C3_NoOverlappingOccupancy ==
    \A o \in occupancy :
        Cardinality({x \in occupancy :
                       x.res = o.res /\ x.from <= o.from /\ o.from < x.to})
          <= resources[o.res].totalAvailable

\* case i is at its acquire and finds the resource exhausted
Waiting(i) ==
    /\ InActivity
    /\ cur = i
    /\ Top.pc = "acquire"
    /\ ~isAvailable(resources[TopElement.resourceName])

\* case i is past its acquire with a unit that acquire gave it
Granted(i) == InActivity /\ cur = i /\ Top.pc = "work" /\ Top.acquired

\* C5: a case that waits in acquire (it finds its resource exhausted) is
\* eventually granted a unit, every holder giving its unit back.
C5_WaiterEventuallyGranted ==
    \A i \in 1..MaxCases : Waiting(i) ~> Granted(i)

VisitedGateway == visit.type = "ExclusiveGateway"
Matches(g, t) == {i \in 1..Len(g.rules) : Eval(g.rules[i].condition, t)}

\* C6: a visit to an ExclusiveGateway calls at most one target, exactly one
\* when some rule matches or a default is set, and none only together with
\* the routing error it writes for this gateway and token.
C6_AtMostOneBranch ==
    VisitedGateway =>
        LET g == elements[visit.node]
            t == tokens[visit.token]
        IN  /\ Len(visit.targets) <= 1
            /\ (Matches(g, t) # {} \/ g.defaultFlow # 0)
                 => Len(visit.targets) = 1
            /\ Len(visit.targets) = 0
                 => /\ stderr # <<>>
                    /\ stderr[Len(stderr)]
                         = Line("RoutingError", g.name, t.candidateId)

\* a gateway with rules, none matching, and no default: no target is called
C6_Witness ==
    /\ VisitedGateway
    /\ elements[visit.node].rules # <<>>
    /\ visit.targets = <<>>
    /\ stderr # <<>>

\* the successful addPath calls made on element n, in the order made
Registered(n) ==
    SelectSeq(done, LAMBDA c : /\ c.op = "addPath"
                               /\ c.a = n
                               /\ c.cond # "null"
                               /\ c.b # 0)

\* C7: the rules of a gateway are the addPath registrations in their order;
\* a visit evaluates them in that order, up to and including the first one
\* that holds, whose target alone is called; no later rule is evaluated.
C7_FirstMatchInOrder ==
    VisitedGateway =>
        LET g == elements[visit.node]
            t == tokens[visit.token]
            reg == Registered(visit.node)
            k == Len(visit.evaluated)
        IN  /\ Len(g.rules) = Len(reg)
            /\ \A i \in 1..Len(reg) :
                  /\ g.rules[i].name = reg[i].name
                  /\ g.rules[i].condition = reg[i].cond
                  /\ g.rules[i].nextNode = reg[i].b
            /\ visit.evaluated = [i \in 1..k |-> i]
            /\ \A i \in 1..(k - 1) : ~Eval(reg[i].cond, t)
            /\ IF Matches(g, t) # {}
               THEN /\ Eval(reg[k].cond, t)
                    /\ visit.via = "rule"
                    /\ visit.targets = <<reg[k].b>>
               ELSE k = Len(reg)

\* rules r1 = false, r2 = true, r3 = true and a default: r2 is taken after
\* r1 and r2 alone were evaluated
C7_Witness ==
    /\ VisitedGateway
    /\ Len(elements[visit.node].rules) = 3
    /\ elements[visit.node].defaultFlow # 0
    /\ ~Eval(elements[visit.node].rules[1].condition, tokens[visit.token])
    /\ Eval(elements[visit.node].rules[3].condition, tokens[visit.token])
    /\ visit.evaluated = <<1, 2>>
    /\ visit.targets = <<elements[visit.node].rules[2].nextNode>>

\* the successful setDefaultPath calls made on element n, in the order made
DefaultsSet(n) ==
    SelectSeq(done, LAMBDA c : c.op = "setDefaultPath" /\ c.a = n /\ c.b # 0)

\* C8: a gateway's default target is the one of the last setDefaultPath,
\* wherever among the addPath calls it was made, and a visit takes the
\* default exactly when one is set and no rule holds for the token.
C8_DefaultIffNoMatch ==
    VisitedGateway =>
        LET g == elements[visit.node]
            t == tokens[visit.token]
            set == DefaultsSet(visit.node)
        IN  /\ g.defaultFlow = IF set = <<>> THEN 0 ELSE set[Len(set)].b
            /\ visit.via = "default" <=> (set # <<>> /\ Matches(g, t) = {})
            /\ visit.via = "default" => visit.targets = <<set[Len(set)].b>>

\* the default is taken at a gateway whose default was set before a rule
\* was added
C8_Witness ==
    /\ VisitedGateway
    /\ visit.via = "default"
    /\ \E i, j \in 1..Len(done) :
          /\ i < j
          /\ done[i].op = "setDefaultPath"
          /\ done[j].op = "addPath"

\* C9: a token that no rule and no default routes out of a gateway stays
\* not completed, and the routing error, with gateway and case id, reaches
\* the caller of executeToken/simulate.
C9_RoutingErrorReachesCaller ==
    (VisitedGateway /\ visit.via = "none") =>
        /\ ~tokens[visit.token].completed
        /\ Line("RoutingError", elements[visit.node].name,
                tokens[visit.token].candidateId) \in escaped

\* C10: an activity whose resource is not registered advances no clock,
\* records no usage, calls no further element, and the error, with case id
\* and resource name, reaches the caller.
C10_ResourceNotFoundReachesCaller ==
    (visit.type = "Activity" /\ visit.via = "error") =>
        /\ visit.targets = <<>>
        /\ tokens[visit.token].currentTime = tokens[visit.token].startTime
        /\ occupancy = {}
        /\ Line("ResourceNotFound", elements[visit.node].resourceName,
                tokens[visit.token].candidateId) \in escaped


InRun == pc = "simulate" /\ pc' = "simulate"

\* C11: during a run a completed token's end reason is never overwritten and
\* its completed flag stays set: completing it again changes nothing.
C11_FirstCompletionKept ==
    [][InRun =>
         \A i \in 1..Len(tokens) :
            tokens[i].completed =>
               /\ tokens'[i].completed
               /\ tokens'[i].endReason = tokens[i].endReason]_vars

\* C12: during a run no token's clock ever decreases, and a token that is
\* completed has cycle time currentTime - startTime >= 0.
C12_ClockMonotone ==
    [][InRun =>
         \A i \in 1..Len(tokens) :
            /\ tokens'[i].currentTime >= tokens[i].currentTime
            /\ tokens'[i].completed => getCycleTime(tokens'[i]) >= 0]_vars

RECURSIVE SumCounts(_, _)
SumCounts(f, keys) ==
    IF keys = {} THEN 0
    ELSE LET k == CHOOSE x \in keys : TRUE
         IN  f[k] + SumCounts(f, keys \ {k})

\* C13: the counts of the end-reason histogram add up to tokensCompleted.
C13_HistogramSumsToCompleted ==
    SumCounts(endReasons, DOMAIN endReasons) = tokensCompleted

\* two end reasons are in the histogram, one of them counted twice or more
C13_Witness ==
    /\ Cardinality(DOMAIN endReasons) >= 2
    /\ \E r \in DOMAIN endReasons : endReasons[r] >= 2

\* C14: after the first run tokensStarted is the number of tokens and
\* tokensCompleted the number of tokens whose completed flag is set: each
\* token was counted once at its start and at most once at its completion.
C14_CountedOncePerToken ==
    (pc = "idle" /\ runs = 1) =>
        /\ tokensStarted = Len(tokens)
        /\ tokensCompleted
             = Cardinality({i \in 1..Len(tokens) : tokens[i].completed})


IsFork(n) == elements[n].type = "ParallelGateway" /\ elements[n].isDivergence
IsJoin(n) == elements[n].type = "ParallelGateway" /\ ~elements[n].isDivergence

\* the elements with an edge to n
Incoming(n) ==
    {m \in 1..Len(elements) :
        \E k \in 1..Len(elements[m].outgoing) : elements[m].outgoing[k] = n}

\* the calls on token i before the k-th call of the trace that are made on
\* an element satisfying Kind (as positions in the trace)
Before(i, k, Kind(_)) ==
    {m \in 1..(k - 1) : trace[m].token = i /\ Kind(trace[m].node)}

MaxOf(S) == CHOOSE x \in S : \A y \in S : y <= x

\* the clock token i had at the last fork it entered before call k
ForkTime(i, k) == trace[MaxOf(Before(i, k, IsFork))].time

\* C15: the token that continues past a join has the clock of the slowest
\* branch: the clock at the fork plus the largest of the branch durations
\* (each branch being one activity between fork and join).
C15_JoinTakesMaxClock ==
    \A k \in 1..Len(trace) :
        \A j \in Incoming(trace[k].node) :
            (IsJoin(j) /\ Before(trace[k].token, k, IsFork) # {}) =>
                trace[k].time
                  = ForkTime(trace[k].token, k)
                     + MaxOf({elements[b].processingTime : b \in Incoming(j)})

\* C16: the element after a join is entered at most once per case, and only
\* after the case has arrived at the join from every incoming branch.
C16_JoinFiresOnce ==
    \A k \in 1..Len(trace) :
        \A j \in Incoming(trace[k].node) :
            IsJoin(j) =>
                LET i == trace[k].token
                    IsJ(n) == n = j
                    IsNext(n) == n = trace[k].node
                IN  /\ Before(i, k, IsNext) = {}
                    /\ Cardinality(Before(i, k, IsJ))
                         = Cardinality(Incoming(j))

\* C17: every branch of a fork starts from the state the case had at the
\* fork: the first element of each branch sees the fork's clock and an
\* uncompleted token, whatever a sibling branch did before.
C17_BranchesIndependent ==
    \A k \in 1..Len(trace) :
        \A f \in Incoming(trace[k].node) :
            (IsFork(f) /\ Before(trace[k].token, k, IsFork) # {}) =>
                /\ trace[k].time = ForkTime(trace[k].token, k)
                /\ ~trace[k].completed

\* what simulate(numCandidates, arrivalInterval) makes and drives, but for
\* the order of the start times
TokensCreated ==
    LET n == simArgs.numCandidates
        iv == simArgs.arrivalInterval
    IN  /\ Len(tokens) = n
        /\ \A k \in 1..n :
              /\ tokens[k].candidateId = k
              /\ tokens[k].startTime = (k - 1) * iv
        /\ \A a, b \in 1..n :
              a # b => tokens[a].candidateId # tokens[b].candidateId
        /\ \A i \in 1..n :
              LET calls == {k \in 1..Len(trace) : trace[k].token = i} IN
              /\ i > cur => calls = {}
              /\ (i < cur /\ startElement # 0) => calls # {}
              /\ calls # {} =>
                    LET first == CHOOSE k \in calls : \A m \in calls : k <= m
                    IN  /\ trace[first].node = startElement
                        /\ trace[first].time = tokens[i].startTime

\* C18 as stated: simulate makes caseCount tokens with distinct ids, the
\* k-th starting at (k-1) * arrivalInterval, drives each from the start
\* node, and the start times are strictly increasing.
C18_StartTimesStrictlyIncreasing ==
    pc = "simulate" =>
        /\ TokensCreated
        /\ \A k \in 1..(Len(tokens) - 1) :
              tokens[k].startTime < tokens[k + 1].startTime

\* C18, amended: simulate makes caseCount tokens with distinct ids, the k-th
\* starting at (k-1) * arrivalInterval, drives each from the start node, and
\* the start times never decrease, and increase strictly when
\* arrivalInterval > 0.
C18_TokensCreatedInOrder ==
    pc = "simulate" =>
        /\ TokensCreated
        /\ \A k \in 1..(Len(tokens) - 1) :
              /\ tokens[k].startTime <= tokens[k + 1].startTime
              /\ simArgs.arrivalInterval > 0
                    => tokens[k].startTime < tokens[k + 1].startTime

\* two tokens were made one minute apart and both were driven
C18_Witness ==
    /\ pc = "simulate"
    /\ simArgs.arrivalInterval = 1
    /\ Len(tokens) = 2
    /\ cur = 2
    /\ stack = <<>>
    /\ \E k \in 1..Len(trace) : trace[k].token = 2

\* C19: an activity with a negative duration does not move the clock: the
\* advanceTime fails and the failure is reported.
C19_NegativeAdvanceRejected ==
    (InActivity /\ Top.pc = "release" /\ TopElement.processingTime < 0) =>
        /\ tokens[cur].currentTime = trace[Len(trace)].time
        /\ escaped # {}

\* the activity whose call is the k-th of the trace found its resource
Successful(k) ==
    /\ elements[trace[k].node].type = "Activity"
    /\ elements[trace[k].node].resourceName \in DOMAIN resources

\* C20: an activity that found its resource advances the clock by exactly
\* its duration and then calls its first outgoing element and no other.
C20_ActivityAdvancesAndForwards ==
    /\ (InActivity /\ Top.pc = "release") =>
          tokens[cur].currentTime
            = trace[Len(trace)].time + TopElement.processingTime
    /\ (visit.type = "Activity" /\ visit.via = "next") =>
          LET out == elements[visit.node].outgoing IN
          visit.targets = IF out = <<>> THEN <<>> ELSE <<out[1]>>
    /\ \A k \in 1..(Len(trace) - 1) :
          (Successful(k) /\ elements[trace[k].node].outgoing # <<>>) =>
              /\ trace[k + 1].token = trace[k].token
              /\ trace[k + 1].node = elements[trace[k].node].outgoing[1]
              /\ trace[k + 1].time
                   = trace[k].time + elements[trace[k].node].processingTime

\* an activity's successor was entered with the clock ten minutes on
C20_Witness ==
    \E k \in 1..(Len(trace) - 1) :
        /\ Successful(k)
        /\ trace[k + 1].node = elements[trace[k].node].outgoing[1]
        /\ trace[k + 1].time = trace[k].time + 10


\* the calls of this run on activities that use resource r and have
\* recorded their usage (an activity still before its addUsage has not)
Performed(r) ==
    {k \in 1..Len(trace) :
        /\ elements[trace[k].node].type = "Activity"
        /\ elements[trace[k].node].resourceName = r
        /\ ~(/\ k = Len(trace)
             /\ InActivity
             /\ Top.pc \in {"acquire", "work"})}

RECURSIVE SumDurations(_)
SumDurations(calls) ==
    IF calls = {} THEN 0
    ELSE LET k == CHOOSE x \in calls : TRUE IN
         elements[trace[k].node].processingTime + SumDurations(calls \ {k})

\* C21: a resource's totalTimeUsed is the sum of the durations of the
\* activity executions performed on it (nothing before the first run, and in
\* every run what the run found plus the run's executions), and its cost is
\* totalTimeUsed * costPerHour / 60 (totalCost is kept times 60).
C21_UsageIsSumOfDurations ==
    \A r \in DOMAIN resources :
        /\ resources[r].totalCost
             = resources[r].totalTimeUsed * resources[r].costPerHour
        /\ runs = 0 => resources[r].totalTimeUsed = 0
        /\ runs = 1 => atCall[r].totalTimeUsed = 0
        /\ runs >= 1 =>
              resources[r].totalTimeUsed
                = atCall[r].totalTimeUsed + SumDurations(Performed(r))

\* a second run has ended and added usage to what the first had recorded
C21_Witness ==
    /\ pc = "idle"
    /\ runs = 2
    /\ \E r \in DOMAIN resources :
          /\ atCall[r].totalTimeUsed > 0
          /\ Cardinality(Performed(r)) >= 2
          /\ resources[r].totalTimeUsed > atCall[r].totalTimeUsed

\* C22: when an activity applies addUsage (after its acquire, before its
\* release) the resource has a unit in use and that unit was taken by this
\* execution's acquire.
C22_UsageWhileHeld ==
    (InActivity /\ Top.pc = "work") =>
        /\ resources[TopElement.resourceName].currentlyUsed >= 1
        /\ Top.acquired

\* C23: an end event completes the token with the event's name as end
\* reason and calls no further element, whatever edges leave it.
C23_EndEventCompletesAndStops ==
    [][Executing("EndEvent") =>
         /\ tokens' = [tokens EXCEPT ![cur] = [@ EXCEPT
                                                !.completed = TRUE,
                                                !.endReason = TopElement.name]]
         /\ stack' = Tail(stack)
         /\ trace' = Append(trace, Entered)]_vars

\* a token was completed by an end event that has an outgoing edge, and the
\* run went on to its end without a further call
C23_Witness ==
    /\ pc = "idle"
    /\ visit.type = "EndEvent"
    /\ elements[visit.node].outgoing # <<>>
    /\ tokens[visit.token].completed
    /\ tokens[visit.token].endReason = elements[visit.node].name
    /\ trace[Len(trace)].node = visit.node

\* C24: while a token is driven through the graph no other token changes:
\* data, start time, clock, completed flag and end reason of every token
\* but the current one stay as they are.
C24_CasesIsolated ==
    [][InRun =>
         /\ Len(tokens') = Len(tokens)
         /\ \A i \in 1..Len(tokens) : i # cur => tokens'[i] = tokens[i]]_vars

\* the second token is past its activity while the first one, completed
\* earlier, still shows the clock it ended with
C24_Witness ==
    /\ InActivity
    /\ cur = 2
    /\ Top.pc = "release"
    /\ tokens[1].completed
    /\ tokens[2].startTime = 1
    /\ tokens[2].currentTime = 11
    /\ tokens[1].currentTime = 10

\* a registration the gateway refused was made
NullRegistration ==
    \E k \in 1..Len(done) :
        \/ done[k].op = "addPath" /\ (done[k].cond = "null" \/ done[k].b = 0)
        \/ done[k].op = "setDefaultPath" /\ done[k].b = 0

\* C25: after a rule with a null condition or target, or a default with a
\* null target, was registered, simulate drives no token through the graph.
C25_NullRegistrationIsFatal ==
    NullRegistration => (trace = <<>> /\ tokensStarted = 0)

\* a resource name was registered twice
DuplicateResource ==
    \E j, k \in 1..Len(done) :
        /\ j < k
        /\ done[j].op = "addResource"
        /\ done[k].op = "addResource"
        /\ done[j].name = done[k].name

\* C26: registering a resource name a second time is reported as an error
\* and no simulation starts after it.
C26_DuplicateResourceRejected ==
    DuplicateResource => (escaped # {} /\ runs = 0)

\* C27: no token is driven into a process whose start event does not have
\* exactly one outgoing edge.
C27_StartEventHasOneEdge ==
    (startElement # 0 /\ Len(elements[startElement].outgoing) # 1) =>
        (trace = <<>> /\ tokensStarted = 0)

\* C28: no simulation runs on a graph in which an activity has more than one
\* outgoing edge.
C28_ActivityHasOneEdge ==
    (\E n \in 1..Len(elements) :
        elements[n].type = "Activity" /\ Len(elements[n].outgoing) > 1)
      => runs = 0

\* C29: no element is ever called on a token that is already completed.
C29_CompletedIsTerminal ==
    \A k \in 1..Len(trace) : ~trace[k].completed

\* every call on a token is made before any call on a later token
CasesInOrder ==
    \A j, k \in 1..Len(trace) : j < k => trace[j].token <= trace[k].token

\* C30 as stated: inside simulate the calls are made case after case, and
\* no resource ever has more than one unit in use.
C30_NeverMoreThanOneUsed ==
    pc = "simulate" =>
        /\ CasesInOrder
        /\ \A r \in DOMAIN resources : resources[r].currentlyUsed <= 1

\* C30, amended: inside simulate the calls are made case after case, only
\* the execution in progress holds a unit it acquired, and a resource has at
\* most one unit in use more than simulate found in use when it was called
\* (so at most one where the client holds none).
C30_OneCaseAtATime ==
    pc = "simulate" =>
        /\ CasesInOrder
        /\ \A k \in 2..Len(stack) : ~stack[k].acquired
        /\ \A r \in DOMAIN resources :
              resources[r].currentlyUsed <= atCall[r].currentlyUsed + 1

\* the second case holds a unit of a resource of which the client holds
\* another
C30_Witness ==
    /\ InActivity
    /\ cur = 2
    /\ Top.pc = "work"
    /\ Top.acquired
    /\ atCall[TopElement.resourceName].currentlyUsed = 1
    /\ resources[TopElement.resourceName].currentlyUsed = 2


\* C31: from the call of simulate to its return no step changes the graph:
\* elements, their edges, rules and default targets, and the entry node.
C31_GraphFrozen ==
    [][(pc = "simulate" \/ pc' = "simulate") =>
         /\ elements' = elements
         /\ startElement' = startElement]_vars

\* a run has ended in which a gateway took a rule's path
C31_Witness ==
    /\ pc = "idle"
    /\ runs >= 1
    /\ \E k \in 1..Len(trace) :
          /\ elements[trace[k].node].type = "ExclusiveGateway"
          /\ Len(elements[trace[k].node].rules) >= 2
          /\ tokens[trace[k].token].completed

\* the k-th call of the trace is one after which nothing is called: a
\* gateway without a way out, an activity without its resource, or an
\* element other than an end event without an outgoing edge
Stopped(k) ==
    LET e == elements[trace[k].node] IN
    \/ /\ e.type = "ExclusiveGateway"
       /\ Route(e, tokens[trace[k].token]).targets = <<>>
    \/ /\ e.type = "Activity"
       /\ e.resourceName \notin DOMAIN resources
    \/ /\ e.type # "EndEvent"
       /\ e.outgoing = <<>>

StoppedSomewhere(i) ==
    \E k \in 1..Len(trace) : trace[k].token = i /\ Stopped(k)

Terminates == (pc = "simulate") ~> (pc = "idle")

\* C32 as stated: simulate returns, and after it every token that is not
\* completed stopped at a gateway without a way out, an activity without
\* its resource or an element without an edge (a token that met none of
\* these is completed).
C32_UnfinishedTokensStopped ==
    /\ Terminates
    /\ [](( pc = "idle" /\ runs >= 1) =>
            \A i \in 1..Len(tokens) :
                ~tokens[i].completed => StoppedSomewhere(i))

\* C32, amended: simulate returns, and after it every token that is not
\* completed either was never driven because the process has no start
\* event, or stopped at a gateway without a way out, an activity without its
\* resource or an element without an edge.
C32_UnfinishedTokensStoppedOrNotDriven ==
    /\ Terminates
    /\ [](( pc = "idle" /\ runs >= 1) =>
            \A i \in 1..Len(tokens) :
                ~tokens[i].completed =>
                    \/ startElement = 0
                    \/ StoppedSomewhere(i))

\* a run has ended with one token completed and another stopped at a
\* gateway
C32_Witness ==
    /\ pc = "idle"
    /\ runs >= 1
    /\ \E i, j \in 1..Len(tokens) :
          /\ tokens[i].completed
          /\ ~tokens[j].completed
          /\ \E k \in 1..Len(trace) :
                /\ trace[k].token = j
                /\ elements[trace[k].node].type = "ExclusiveGateway"
                /\ Stopped(k)

\* C33: never more tokens completed than started.
C33_CompletedAtMostStarted == tokensCompleted <= tokensStarted

\* C34: after any number of simulate calls the counters describe the tokens
\* kept: tokensStarted is their number and tokensCompleted the number of
\* completed ones.
C34_CountersDescribeKeptTokens ==
    (pc = "idle" /\ runs >= 1) =>
        /\ tokensStarted = Len(tokens)
        /\ tokensCompleted
             = Cardinality({i \in 1..Len(tokens) : tokens[i].completed})

\* an activity is between its acquire and its release
MidExecute == InActivity /\ Top.pc \in {"work", "release"}

\* C35: inside simulate, whenever no activity is between its acquire and
\* its release, every resource has the in-use count simulate found (0 when
\* nothing was in use): each execution gives back what it took, no more.
C35_ExecutionRestoresCount ==
    (pc = "simulate" /\ ~MidExecute) =>
        \A r \in DOMAIN resources :
            resources[r].currentlyUsed = atCall[r].currentlyUsed

\* the targets registered on gateway g by addPath and setDefaultPath
RegisteredTargets(g) ==
    {g.rules[i].nextNode : i \in 1..Len(g.rules)}
      \cup (IF g.defaultFlow # 0 THEN {g.defaultFlow} ELSE {})

C37_RejectedRegistrationChangesNothing ==
    [][((Calling("addPath") \/ Calling("setDefaultPath"))
          /\ script' # script) =>
         LET c == Head(script)
             g == elements[c.a]
             h == elements'[c.a]
             rejected == \/ c.b = 0
                         \/ c.op = "addPath" /\ c.cond = "null"
         IN  IF rejected THEN elements' = elements
             ELSE /\ Len(elements') = Len(elements)
                  /\ \A n \in 1..Len(elements) :
                        n # c.a => elements'[n] = elements[n]
                  /\ h.outgoing = Append(g.outgoing, c.b)
                  /\ IF c.op = "addPath"
                     THEN /\ h.rules = Append(g.rules,
                                              [name |-> c.name,
                                               condition |-> c.cond,
                                               nextNode |-> c.b])
                          /\ h.defaultFlow = g.defaultFlow
                     ELSE /\ h.rules = g.rules
                          /\ h.defaultFlow = c.b]_vars

\* after a refused registration and a successful one the gateway has one
\* rule and one edge
C37_Witness ==
    /\ script = <<>>
    /\ NullRegistration
    /\ \E n \in 1..Len(elements) :
          /\ elements[n].type = "ExclusiveGateway"
          /\ Len(elements[n].rules) = 1
          /\ Len(elements[n].outgoing) = 1
          /\ elements[n].defaultFlow = 0

\* C38: no step of a run changes the data of a token, and every gateway
\* routes a token after the step as it would have before it.
C38_DataNeverWritten ==
    [][InRun =>
         \A i \in 1..Len(tokens) :
            /\ tokens'[i].data = tokens[i].data
            /\ \A n \in 1..Len(elements) :
                  elements[n].type = "ExclusiveGateway" =>
                      Route(elements[n], tokens'[i]).targets
                        = Route(elements[n], tokens[i]).targets]_vars

\* a token was routed by a rule and completed, its data as it was made
C38_Witness ==
    /\ pc = "simulate"
    /\ cur = 2
    /\ tokens[1].completed
    /\ tokens[1].data = NoData
    /\ \E k \in 1..Len(trace) :
          /\ trace[k].token = 1
          /\ elements[trace[k].node].type = "ExclusiveGateway"

\* the first start event added (0 when there is none)
FirstStart ==
    LET starts == {n \in 1..Len(elements) : elements[n].type = "StartEvent"}
    IN  IF starts = {} THEN 0
        ELSE CHOOSE n \in starts : \A m \in starts : n <= m

\* C39: the entry node is the first start event added, whatever is added
\* after it; every token's first call is on it; without a start event a run
\* calls nothing and leaves tokens, counters and resources as they were.
C39_EntryIsFirstStartEvent ==
    /\ startElement = FirstStart
    /\ \A k \in 1..Len(trace) :
          (k = 1 \/ trace[k - 1].token # trace[k].token) =>
              trace[k].node = startElement
    /\ startElement = 0 =>
          /\ trace = <<>>
          /\ tokensStarted = 0
          /\ tokensCompleted = 0
          /\ endReasons = <<>>
          /\ \A i \in 1..Len(tokens) :
                tokens[i] = Token(i, (i - 1) * simArgs.arrivalInterval)
          /\ pc = "simulate" => resources = atCall

\* with two start events added, a token entered at the first and was
\* completed at its end event
C39_Witness ==
    /\ Cardinality({n \in 1..Len(elements) :
                      elements[n].type = "StartEvent"}) = 2
    /\ trace # <<>>
    /\ trace[1].node = startElement
    /\ tokens[1].completed
    /\ tokens[1].endReason = "Done"

=============================================================================
